---- MODULE Spec2Model ----
(***************************************************************************)
(* Model of the graph-store client (src/src/clients/neo4j.py) and of the   *)
(* process entry point (src/src/application.py).                           *)
(*                                                                         *)
(* The store itself is the Neo4j server: the Cypher statements the client  *)
(* sends are modelled by what the server does with them (MATCH binds rows, *)
(* CREATE adds a node, SET n:L adds labels, MERGE reuses or creates one    *)
(* relationship per row, SET r += m overlays m, a statement that does not  *)
(* parse raises and the write transaction is rolled back).                 *)
(***************************************************************************)
EXTENDS Integers, Sequences, FiniteSets, TLC

VARIABLES
    nodes,       \* stored nodes: records [id, name, labels, description]
    edges,       \* stored relationships: records [id, source, target, type, attrs]
    call,        \* the latest client call: its operation and arguments
    ret,         \* what the latest client call returned
    prev,        \* the call before it, kept when it addressed the same name / triple
    attributed,  \* per name, the categories of every create_node call made so far
    pc,          \* position of main() in application.py
    driver,      \* self._driver of the Neo4jClient: "none", "open" or "closed"
    closes,      \* how many times the underlying driver's close() was called
    argv,        \* sys.argv
    pending,     \* the exit status main() will leave with once its finally ran
    exitCode,    \* exit status of the process, NoExit while it runs
    failed       \* where main() left its normal course, "none" while it has not

vars == <<nodes, edges, call, ret, prev, attributed,
          pc, driver, closes, argv, pending, exitCode, failed>>

mainVars == <<pc, driver, closes, argv, pending, exitCode, failed>>

----------------------------------------------------------------------------
(* Bounds of the exploration *)

MaxNodes == 3
MaxEdges == 2
\* close() calls made on one client
MaxCloses == 2

----------------------------------------------------------------------------
(* Values *)

Names == {"Paris", "France"}
PathNames == {"Paris", "France", "Europe"}
AllNames == Names \cup PathNames
Descriptions == {"d1", "d2"}

\* Strings that are spliced into a statement (labels, relation types) are
\* sequences of characters; the backtick, the double quote and the single quote
\* are written by name.
QuoteChars == {"backtick", "dquote", "squote"}

City == <<"C", "i", "t", "y">>
Capital == <<"C", "a", "p">>
\* a label with a backtick inside
Ticked == <<"C", "backtick", "y">>

\* Entity.category: a list of zero or more labels
Categories == {<<>>, <<City>>, <<Capital>>}

Entities == [name : Names, description : Descriptions, category : Categories]

\* entities of one description, a label with a backtick among their categories
LabelEntities ==
    [name : Names, description : {"d1"}, category : Categories \cup {<<Ticked>>}]

RelTypes == {<<"o", "f">>, <<"o", "squote", "f">>, <<"backtick", "dquote">>}

\* Relationship.attributes: a mapping (kind "dict") or another value (kind "int",
\* or "NoneType" for None).  Property values are numbers; Null stands for Python's
\* None, which reaches the store as Cypher's null and is no property value.
Null == -1
PyDict(m) == [kind |-> "dict", items |-> m]
PyInt(v) == [kind |-> "int", items |-> ("value" :> v)]
PyNone == [kind |-> "NoneType", items |-> ("value" :> Null)]
AttributeValues == {PyDict("since" :> 1789), PyDict("since" :> 1792), PyInt(7)}

\* every attribute value under the plain type, one under the types with quotes;
\* the endpoint pairs Paris->France, France->Paris and Paris->Paris
EndpointPairs == {<<"Paris", "France">>, <<"France", "Paris">>, <<"Paris", "Paris">>}
Relationships ==
    {[source_entity_name |-> p[1], target_entity_name |-> p[2],
      relation_type |-> x[1], attributes |-> x[2]] :
        <<p, x>> \in EndpointPairs \X
            (({<<"o", "f">>} \X AttributeValues)
             \cup (RelTypes \X {PyDict("since" :> 1792)}))}

\* narrower input sets, for the specifications that vary something else
PlainEntities == [name : Names, description : {"d1"}, category : {<<City>>}]
PlainRelationships ==
    [source_entity_name : Names, target_entity_name : Names,
     relation_type : {<<"o", "f">>}, attributes : {PyDict("since" :> 1789)}]
\* attributes given as a mapping, as a number and as None
WrapRelationships ==
    {[source_entity_name |-> p[1], target_entity_name |-> p[2],
      relation_type |-> <<"o", "f">>, attributes |-> a] :
        <<p, a>> \in EndpointPairs \X {PyDict("since" :> 1789), PyInt(7), PyNone}}
PathEntities == [name : PathNames, description : {"d1"}, category : {<<City>>}]
PathRelationships ==
    [source_entity_name : PathNames, target_entity_name : PathNames,
     relation_type : {<<"o", "f">>}, attributes : {PyDict("since" :> 1789)}]

\* Python return values
None == [kind |-> "None"]
Str(s) == [kind |-> "str", val |-> s]
List(l) == [kind |-> "list", val |-> l]

NoCall == [op |-> "none"]
NoExit == -1

----------------------------------------------------------------------------
(* Neo4jClient.create_node *)

Range(f) == {f[i] : i \in DOMAIN f}

\* ":".join(parts)
RECURSIVE Join(_)
Join(parts) ==
    IF parts = <<>> THEN <<>>
    ELSE IF Len(parts) = 1 THEN parts[1]
    ELSE parts[1] \o <<":">> \o Join(Tail(parts))

\* category_labels: each category between backticks, joined by colons; the empty
\* string for an entity without categories
category_labels(category) ==
    IF category # <<>>
    THEN Join([i \in DOMAIN category |-> <<"backtick">> \o category[i] \o <<"backtick">>])
    ELSE <<>>

\* How the store reads the label expression that follows "n:" in "SET n:<expr>"
\* and "CREATE (n:<expr> {...})": names separated by colons, a name either between
\* backticks (a doubled backtick standing for one) or a bare run of characters.
\* [ok, name, next]: the name that starts at position i and where it ends.
RECURSIVE ScanEscaped(_, _, _)
ScanEscaped(s, i, acc) ==
    IF i > Len(s) THEN [ok |-> FALSE, name |-> acc, next |-> i]
    ELSE IF s[i] # "backtick" THEN ScanEscaped(s, i + 1, Append(acc, s[i]))
    ELSE IF i + 1 <= Len(s) /\ s[i + 1] = "backtick"
    THEN ScanEscaped(s, i + 2, Append(acc, "backtick"))
    ELSE [ok |-> acc # <<>>, name |-> acc, next |-> i + 1]

RECURSIVE ScanBare(_, _, _)
ScanBare(s, i, acc) ==
    IF i > Len(s) \/ s[i] \in {"backtick", ":"}
    THEN [ok |-> acc # <<>>, name |-> acc, next |-> i]
    ELSE ScanBare(s, i + 1, Append(acc, s[i]))

ScanName(s, i) ==
    IF i > Len(s) THEN [ok |-> FALSE, name |-> <<>>, next |-> i]
    ELSE IF s[i] = "backtick" THEN ScanEscaped(s, i + 1, <<>>)
    ELSE ScanBare(s, i, <<>>)

\* [ok, labels]: the labels the expression from position i on names; not ok when
\* the statement does not parse
RECURSIVE ParseLabels(_, _)
ParseLabels(s, i) ==
    LET first == ScanName(s, i)
    IN  IF ~first.ok THEN [ok |-> FALSE, labels |-> {}]
        ELSE IF first.next > Len(s) THEN [ok |-> TRUE, labels |-> {first.name}]
        ELSE IF s[first.next] # ":" THEN [ok |-> FALSE, labels |-> {}]
        ELSE LET rest == ParseLabels(s, first.next + 1)
             IN  [ok |-> rest.ok, labels |-> {first.name} \cup rest.labels]

\* MATCH (n {name: $name})
MatchByName_Always_Empty(ns, name) == {}
MatchByName(ns, name) == {n \in ns : n.name = name}

\* elementId of the next node the store creates
NewNodeId(ns) == Cardinality(ns) + 1

\* SET n:<labels> on the matched node
SetLabels_Overwrite_Description(n, labels, description) ==
    [n EXCEPT !.labels = @ \cup labels, !.description = description]
SetLabels(n, labels, description) == [n EXCEPT !.labels = @ \cup labels]

\* CREATE (n:<labels> {name: $name, description: $description})
CreateNode(ns, entity, labels) ==
    [id |-> NewNodeId(ns), name |-> entity.name,
     labels |-> labels, description |-> entity.description]

\* _create_node_tx: the outcomes of the transaction function, each a record
\* [raised, nodes, ret]; a raise leaves the store as it was (rollback).
create_node_tx(ns, entity) ==
    LET parsed == ParseLabels(category_labels(entity.category), 1)
        found == MatchByName(ns, entity.name)
    IN  IF found # {}
        THEN { IF parsed.ok
               THEN [raised |-> FALSE,
                     nodes |-> (ns \ {n})
                               \cup {SetLabels(n, parsed.labels, entity.description)},
                     ret |-> Str(n.id)]
               ELSE [raised |-> TRUE, nodes |-> ns, ret |-> None]
               : n \in found }
        ELSE { IF parsed.ok
               THEN [raised |-> FALSE,
                     nodes |-> ns \cup {CreateNode(ns, entity, parsed.labels)},
                     ret |-> Str(NewNodeId(ns))]
               ELSE [raised |-> TRUE, nodes |-> ns, ret |-> None] }

\* self._driver.session() works on an open driver of a reachable store
SessionOpens(fault) == driver = "open" /\ ~fault

\* an except clause that lets the exception leave the call
Caught_Reraise(out) == IF out.raised THEN [kind |-> "raised"] ELSE out.ret

\* "except Exception: logger.error(...); return None" around the session: an
\* exception of the transaction never leaves the call
Caught(out) == IF out.raised THEN None ELSE out.ret

\* the previous call, remembered when it was a create_node for the same name
SameName(c, name) == c.op = "create_node" /\ c.name = name

NoPrev == [op |-> "none"]

create_node(entity, fault) ==
    /\ pc = "run"
    /\ \E out \in (IF SessionOpens(fault)
                   THEN create_node_tx(nodes, entity)
                   ELSE {[raised |-> TRUE, nodes |-> nodes, ret |-> None]}) :
          /\ Cardinality(out.nodes) <= MaxNodes
          /\ nodes' = out.nodes
          /\ ret' = Caught(out)
    /\ call' = [op |-> "create_node", name |-> entity.name,
                description |-> entity.description, category |-> entity.category,
                existed |-> (\E n \in nodes : n.name = entity.name),
                fault |-> fault]
    /\ prev' = (IF SameName(call, entity.name)
                THEN [op |-> "create_node", category |-> call.category,
                      existed |-> call.existed, ret |-> ret, fault |-> call.fault]
                ELSE NoPrev)
    /\ attributed' = [attributed EXCEPT ![entity.name] = @ \cup Range(entity.category)]
    /\ UNCHANGED <<edges, mainVars>>

----------------------------------------------------------------------------
(* Neo4jClient.create_relationship *)

\* a fallback that stores the value as it came, under no reserved key
Wrap_Unwrapped(a) == a.items

\* isinstance(attributes, dict), and the fallback wrapping of any other value
IsDict(a) == a.kind = "dict"
Wrap(a) == IF IsDict(a) THEN a.items ELSE ("stored_data" :> a.items["value"])

\* relation_type.replace("`", "").replace('"', "").replace("'", "")
Sanitize(t) == SelectSeq(t, LAMBDA c : c \notin QuoteChars)

\* an escaped identifier `...` names a relationship type only when it is not empty
RelTypeParses(t) == t # <<>>

\* SET r += $attributes
Overlay_KeepOld(old, new) ==
    [k \in DOMAIN old \cup DOMAIN new |-> IF k \in DOMAIN old THEN old[k] ELSE new[k]]
\* a key given with null is removed from the relationship; no property is null
Overlay(old, new) ==
    [k \in {j \in DOMAIN old \cup DOMAIN new : j \in DOMAIN new => new[j] # Null} |->
        IF k \in DOMAIN new THEN new[k] ELSE old[k]]

\* the relationships MERGE (source)-[r:`type`]->(target) matches for one row
MergeMatch_None(es, s, t, type) == {}
MergeMatch(es, s, t, type) ==
    {e \in es : e.source = s.id /\ e.target = t.id /\ e.type = type}

NewEdgeId(es) == Cardinality(es) + 1

\* MERGE then SET r += $attributes for one row (source s, target t)
MergeRow(es, s, t, type, attrs) ==
    LET found == MergeMatch(es, s, t, type)
    IN  IF found # {}
        THEN (es \ found) \cup {[e EXCEPT !.attrs = Overlay(@, attrs)] : e \in found}
        ELSE es \cup {[id |-> NewEdgeId(es), source |-> s.id, target |-> t.id,
                       type |-> type, attrs |-> Overlay(<<>>, attrs)]}

\* the statement runs once per row the two MATCH clauses bind
RECURSIVE MergeRows(_, _, _, _)
MergeRows(es, rows, type, attrs) ==
    IF rows = {} THEN es
    ELSE LET row == CHOOSE r \in rows : TRUE
         IN  MergeRows(MergeRow(es, row[1], row[2], type, attrs),
                       rows \ {row}, type, attrs)

\* MATCH (source) WHERE source.name = $s  MATCH (target) WHERE target.name = $t
MatchEndpoints_Create(ns, s, t) ==
    {<<a, b>> \in ns \X ns : a.name = s \/ b.name = t}
MatchEndpoints(ns, s, t) ==
    {<<a, b>> \in ns \X ns : a.name = s /\ b.name = t}

\* a statement whose MERGE pattern creates the source node it does not find
create_relationship_tx_MergeNodes(ns, es, relationship) ==
    [raised |-> FALSE, ret |-> None, edges |-> es,
     nodes |-> IF \E n \in ns : n.name = relationship.source_entity_name
               THEN ns
               ELSE ns \cup {[id |-> NewNodeId(ns),
                              name |-> relationship.source_entity_name,
                              labels |-> {}, description |-> "d1"]}]

\* _create_relationship_tx: [raised, ret, nodes, edges].  The two MATCH clauses
\* bind the endpoints, so the MERGE of the relationship creates no node, and the
\* SET touches the relationship only
create_relationship_tx(ns, es, relationship) ==
    LET attrs == Wrap(relationship.attributes)
        rel_type == Sanitize(relationship.relation_type)
    IN  IF RelTypeParses(rel_type)
        THEN [raised |-> FALSE, ret |-> None, nodes |-> ns,
              edges |-> MergeRows(es, MatchEndpoints(ns, relationship.source_entity_name,
                                                     relationship.target_entity_name),
                                  rel_type, attrs)]
        ELSE [raised |-> TRUE, ret |-> None, nodes |-> ns, edges |-> es]

\* the stored relationships a (source name, target name, raw type) triple denotes
EdgesOf(ns, es, s, t, type) ==
    {e \in es : /\ \E n \in ns : n.id = e.source /\ n.name = s
                /\ \E n \in ns : n.id = e.target /\ n.name = t
                /\ e.type = Sanitize(type)}

SameTriple(c, r) ==
    /\ c.op = "create_relationship"
    /\ c.source_entity_name = r.source_entity_name
    /\ c.target_entity_name = r.target_entity_name
    /\ c.relation_type = r.relation_type

create_relationship(relationship, fault) ==
    /\ pc = "run"
    /\ LET out == IF SessionOpens(fault)
                  THEN create_relationship_tx(nodes, edges, relationship)
                  ELSE [raised |-> TRUE, ret |-> None, nodes |-> nodes, edges |-> edges]
       IN  /\ Cardinality(out.edges) <= MaxEdges
           /\ nodes' = out.nodes
           /\ edges' = out.edges
           /\ ret' = Caught(out)
    /\ call' = [op |-> "create_relationship",
                source_entity_name |-> relationship.source_entity_name,
                target_entity_name |-> relationship.target_entity_name,
                relation_type |-> relationship.relation_type,
                attributes |-> relationship.attributes,
                stored |-> Wrap(relationship.attributes),
                dangling |->
                    ~ /\ \E n \in nodes : n.name = relationship.source_entity_name
                      /\ \E n \in nodes : n.name = relationship.target_entity_name,
                existed |-> (EdgesOf(nodes, edges, relationship.source_entity_name,
                                     relationship.target_entity_name,
                                     relationship.relation_type) # {}),
                fault |-> fault]
    /\ prev' = (IF SameTriple(call, relationship)
                THEN [op |-> "create_relationship", stored |-> call.stored,
                      existed |-> call.existed, fault |-> call.fault]
                ELSE NoPrev)
    /\ UNCHANGED <<attributed, mainVars>>

----------------------------------------------------------------------------
(* Neo4jClient.find_longest_paths *)

\* LIMIT 3
Limit == 3

\* MATCH p = (n)-[*]->(m): the directed paths of one or more relationships, no
\* relationship used twice in a path
Extend(es, paths) ==
    {Append(p, e) : <<p, e>> \in
        {<<q, f>> \in paths \X es : f \notin Range(q) /\ q[Len(q)].target = f.source}}

RECURSIVE PathsOfLength(_, _)
PathsOfLength(es, k) ==
    IF k = 1 THEN {<<e>> : e \in es} ELSE Extend(es, PathsOfLength(es, k - 1))

MatchPaths(es) == UNION {PathsOfLength(es, k) : k \in 1..Cardinality(es)}

\* ORDER BY length(p) DESC LIMIT k: every order the store may break ties in
Longest_Shortest(paths) == {p \in paths : \A q \in paths : Len(q) >= Len(p)}
Longest(paths) == {p \in paths : \A q \in paths : Len(q) <= Len(p)}

RECURSIVE OrderByLengthDescLimit(_, _)
OrderByLengthDescLimit(paths, k) ==
    IF k = 0 \/ paths = {} THEN {<<>>}
    ELSE UNION {{<<p>> \o rest : rest \in OrderByLengthDescLimit(paths \ {p}, k - 1)}
                : p \in Longest(paths)}

\* [node in nodes(p) | node.name]
NameOf(ns, id) == (CHOOSE n \in ns : n.id = id).name
nodeNames(ns, p) ==
    <<NameOf(ns, p[1].source)>> \o [i \in 1..Len(p) |-> NameOf(ns, p[i].target)]

\* _find_longest_path_tx: the lists of name sequences the query may yield
find_longest_path_tx(ns, es) ==
    {[i \in 1..Len(rows) |-> nodeNames(ns, rows[i])]
        : rows \in OrderByLengthDescLimit(MatchPaths(es), Limit)}

\* "if node_ids: return node_ids / else: return None"
ReturnPaths(node_ids) == IF node_ids # <<>> THEN List(node_ids) ELSE None

find_longest_paths(fault) ==
    /\ pc = "run"
    /\ \E node_ids \in (IF SessionOpens(fault)
                        THEN find_longest_path_tx(nodes, edges) ELSE {<<>>}) :
          ret' = Caught([raised |-> ~SessionOpens(fault), ret |-> ReturnPaths(node_ids)])
    /\ call' = [op |-> "find_longest_paths", fault |-> fault]
    /\ prev' = NoPrev
    /\ UNCHANGED <<nodes, edges, attributed, mainVars>>

----------------------------------------------------------------------------
(* Specifications: the client driven directly, from a freshly constructed   *)
(* client on an empty store, with the store reachable throughout.           *)

Init ==
    /\ nodes = {}
    /\ edges = {}
    /\ call = NoCall
    /\ ret = None
    /\ prev = NoPrev
    /\ attributed = [n \in AllNames |-> {}]
    /\ pc = "run"
    /\ driver = "open"
    /\ closes = 0
    /\ argv = <<<<"p">>, <<"t">>, <<"2">>>>
    /\ pending = 0
    /\ exitCode = NoExit
    /\ failed = "none"

\* Node upserts over every entity; relationships over one type and attribute map
Next ==
    \/ \E e \in Entities : create_node(e, FALSE)
    \/ \E r \in PlainRelationships : create_relationship(r, FALSE)
    \/ find_longest_paths(FALSE)

Spec == Init /\ [][Next]_vars

\* Node upserts over label lists that include a label with a backtick
LabelNext ==
    \/ \E e \in LabelEntities : create_node(e, FALSE)
    \/ \E r \in PlainRelationships : create_relationship(r, FALSE)
    \/ find_longest_paths(FALSE)

LabelSpec == Init /\ [][LabelNext]_vars

\* Relationship upserts over every type and attribute value; plain entities
RelNext ==
    \/ \E e \in PlainEntities : create_node(e, FALSE)
    \/ \E r \in Relationships : create_relationship(r, FALSE)
    \/ find_longest_paths(FALSE)

RelSpec == Init /\ [][RelNext]_vars

\* Graph shapes over three names, for the path query
PathNext ==
    \/ \E e \in PathEntities : create_node(e, FALSE)
    \/ \E r \in PathRelationships : create_relationship(r, FALSE)
    \/ find_longest_paths(FALSE)

PathSpec == Init /\ [][PathNext]_vars

\* Relationship upserts whose attributes are a mapping, a number or None
WrapNext ==
    \/ \E e \in PlainEntities : create_node(e, FALSE)
    \/ \E r \in WrapRelationships : create_relationship(r, FALSE)
    \/ find_longest_paths(FALSE)

WrapSpec == Init /\ [][WrapNext]_vars

----------------------------------------------------------------------------
(* main() of application.py.  Strings of sys.argv are sequences of characters. *)

Digits == {"0", "1", "2", "3"}
DigitValue(c) == CASE c = "0" -> 0 [] c = "1" -> 1 [] c = "2" -> 2 [] c = "3" -> 3

RECURSIVE DecimalValue(_)
DecimalValue(t) ==
    IF t = <<>> THEN 0
    ELSE 10 * DecimalValue(SubSeq(t, 1, Len(t) - 1)) + DigitValue(t[Len(t)])

AllDigits(t) == t # <<>> /\ \A i \in DOMAIN t : t[i] \in Digits

\* an int() that raises no ValueError
ParseInt_Lenient(text) ==
    [ok |-> TRUE, val |-> IF AllDigits(text) THEN DecimalValue(text) ELSE 1]

\* int(text): [ok, val]; not ok stands for the ValueError
ParseInt(text) ==
    IF AllDigits(text) THEN [ok |-> TRUE, val |-> DecimalValue(text)]
    ELSE IF text # <<>> /\ text[1] = "-" /\ AllDigits(Tail(text))
    THEN [ok |-> TRUE, val |-> 0 - DecimalValue(Tail(text))]
    ELSE [ok |-> FALSE, val |-> 0]

IterationArgs == {<<"2">>, <<"1", "0">>, <<"0">>, <<"-", "3">>, <<"x">>, <<>>}
Argvs ==
    {<<<<"p">>>>, <<<<"p">>, <<"t">>>>}
    \cup {<<<<"p">>, <<"t">>, n>> : n \in IterationArgs}

\* an exception nobody catches ends the interpreter with status 1
UncaughtExit == 1

Exit(code) == pc' = "exit" /\ exitCode' = code

\* an exception raised at a statement of main() outside its try block
Uncaught(site) == Exit(UncaughtExit) /\ failed' = site

\* the statement completed: main() goes on at the next one
Goto(next) == pc' = next /\ exitCode' = exitCode /\ failed' = failed

\* lines 27-38: usage check and the iteration count
ParseArgs ==
    /\ pc = "start"
    /\ IF Len(argv) < 3
       THEN Exit(1) /\ failed' = "args"
       ELSE LET max_iterations == ParseInt(argv[3])
            IN  IF ~max_iterations.ok \/ max_iterations.val <= 0
                THEN Exit(1) /\ failed' = "args"
                ELSE Goto("openai")
    /\ UNCHANGED <<nodes, edges, call, ret, prev, attributed,
                   driver, closes, argv, pending>>

\* line 41: OpenAIClient(...)
NewOpenAIClient(raises) ==
    /\ pc = "openai"
    /\ IF raises THEN Uncaught("openai") ELSE Goto("neo4j")
    /\ UNCHANGED <<nodes, edges, call, ret, prev, attributed,
                   driver, closes, argv, pending>>

\* the except clause of Neo4jClient.__init__ leaves the driver open
init_except_Leak(d, n) == [driver |-> d, closes |-> n]

\* the except clause of Neo4jClient.__init__, entered with self._driver = d:
\* a driver that was created is closed; [driver, closes] when the error is re-raised
init_except(d, n) ==
    IF d # "none" THEN [driver |-> "closed", closes |-> n + 1]
    ELSE [driver |-> d, closes |-> n]

\* Neo4jClient.__init__ (called at line 42 of application.py): outcome "ok",
\* "driver" (GraphDatabase.driver raises) or "verify" (verify_connection raises)
Neo4jClientInit(outcome) ==
    /\ pc = "neo4j"
    /\ driver = "none"
    /\ CASE outcome = "ok" ->
              driver' = "open" /\ closes' = closes /\ Goto("embedder")
         [] outcome = "driver" ->
              /\ driver' = init_except("none", closes).driver
              /\ closes' = init_except("none", closes).closes
              /\ Uncaught("driver")
         [] outcome = "verify" ->
              /\ driver' = init_except("open", closes).driver
              /\ closes' = init_except("open", closes).closes
              /\ Uncaught("verify")
    /\ UNCHANGED <<nodes, edges, call, ret, prev, attributed, argv, pending>>

\* line 43: Embedder(...)
NewEmbedder(raises) ==
    /\ pc = "embedder"
    /\ IF raises THEN Uncaught("embedder") ELSE Goto("generator")
    /\ UNCHANGED <<nodes, edges, call, ret, prev, attributed,
                   driver, closes, argv, pending>>

\* line 44: KnowledgeGraphGenerator(...), then the try block is entered
NewGenerator(raises) ==
    /\ pc = "generator"
    /\ IF raises THEN Uncaught("generator") ELSE Goto("run")
    /\ UNCHANGED <<nodes, edges, call, ret, prev, attributed,
                   driver, closes, argv, pending>>

\* lines 46-51: run_kg_generation_iterations returns, or an exception escapes it
\* and the except clause calls sys.exit(2); either way the finally clause is next
RunEnds(raises) ==
    /\ pc = "run"
    /\ pc' = "finally"
    /\ pending' = (IF raises THEN 2 ELSE 0)
    /\ failed' = (IF raises THEN "run" ELSE failed)
    /\ UNCHANGED <<nodes, edges, call, ret, prev, attributed,
                   driver, closes, argv, exitCode>>

\* Neo4jClient.close: [driver, closes] after the call and the level it logged at.
\* self._driver is not reset by close(), so it stays truthy once a driver was created
close(d, n) ==
    IF d # "none" THEN [driver |-> "closed", closes |-> n + 1, log |-> "info"]
    ELSE [driver |-> d, closes |-> n, log |-> "warning"]

\* lines 52-54: finally: neo4j_client.close(), then the process ends
Finally ==
    /\ pc = "finally"
    /\ driver' = close(driver, closes).driver
    /\ closes' = close(driver, closes).closes
    /\ Exit(pending)
    /\ UNCHANGED <<nodes, edges, call, ret, prev, attributed, argv, pending, failed>>

\* close() called by the owner of a constructed client
CallClose ==
    /\ pc = "run"
    /\ closes < MaxCloses
    /\ LET out == close(driver, closes)
       IN  /\ driver' = out.driver
           /\ closes' = out.closes
           /\ call' = [op |-> "close", before |-> driver, log |-> out.log]
    /\ ret' = None
    /\ prev' = NoPrev
    /\ UNCHANGED <<nodes, edges, attributed, pc, argv, pending, exitCode, failed>>

\* A constructed client whose owner may close it, more than once, between calls
ClientNext ==
    \/ \E e \in PlainEntities : create_node(e, FALSE)
    \/ \E r \in PlainRelationships : create_relationship(r, FALSE)
    \/ find_longest_paths(FALSE)
    \/ CallClose

ClientSpec == Init /\ [][ClientNext]_vars

MainInit ==
    /\ nodes = {}
    /\ edges = {}
    /\ call = NoCall
    /\ ret = None
    /\ prev = NoPrev
    /\ attributed = [n \in AllNames |-> {}]
    /\ pc = "start"
    /\ driver = "none"
    /\ closes = 0
    /\ argv \in Argvs
    /\ pending = 0
    /\ exitCode = NoExit
    /\ failed = "none"

\* The process: the calls the run makes on the store may each meet a store failure
MainNext ==
    \/ ParseArgs
    \/ \E raises \in BOOLEAN : NewOpenAIClient(raises)
    \/ \E outcome \in {"ok", "driver", "verify"} : Neo4jClientInit(outcome)
    \/ \E raises \in BOOLEAN : NewEmbedder(raises)
    \/ \E raises \in BOOLEAN : NewGenerator(raises)
    \/ \E e \in PlainEntities, fault \in BOOLEAN : create_node(e, fault)
    \/ \E r \in PlainRelationships, fault \in BOOLEAN : create_relationship(r, fault)
    \/ \E fault \in BOOLEAN : find_longest_paths(fault)
    \/ \E raises \in BOOLEAN : RunEnds(raises)
    \/ Finally

MainSpec == MainInit /\ [][MainNext]_vars

----------------------------------------------------------------------------
(* Properties *)

NodesNamed(name) == {n \in nodes : n.name = name}

\* C1: from an empty store, after any sequence of create_node and
\* create_relationship calls, the store holds at most one node per name.
C1_OneNodePerName == \A name \in AllNames : Cardinality(NodesNamed(name)) <= 1

\* a create_node for a stored name has returned its identifier, with relationships stored
C1_Witness ==
    /\ call.op = "create_node" /\ call.existed /\ ret.kind = "str"
    /\ edges # {}
    /\ Cardinality(nodes) = 2

\* C2: create_node(e1) then create_node(e2) with e1.name = e2.name (any category
\* sets, the empty one included) leaves exactly one node for the name, labelled
\* with the union of the two category sets, and both calls return the same node
\* identifier.  (The union is asked only when the name was not stored before e1.)
C2_SameNodeTwice ==
    (prev.op = "create_node" /\ call.op = "create_node") =>
        /\ Cardinality(NodesNamed(call.name)) = 1
        /\ ~prev.existed =>
              \A n \in NodesNamed(call.name) :
                  n.labels = Range(prev.category) \cup Range(call.category)
        /\ ret.kind = "str"
        /\ ret = prev.ret

\* C3: at most one stored edge per (source name, target name, relation type)
\* triple; a repeated create_relationship reuses the edge of its triple.
C3_OneEdgePerTriple ==
    \A s \in AllNames, t \in AllNames, type \in RelTypes :
        Cardinality(EdgesOf(nodes, edges, s, t, type)) <= 1

\* a triple was given again, spelled with a quote, while two edges are stored
C3_Witness ==
    /\ call.op = "create_relationship" /\ call.existed
    /\ call.relation_type = <<"o", "squote", "f">>
    /\ Cardinality(edges) = 2

\* the attribute map r1 then r2 leave on the edge e of their triple: every key of
\* r2 has r2's value, every other key of r1 has r1's value, and the map is exactly
\* that overlay when r1 created the edge
OverlaidOn(e, r1, r2, created) ==
    /\ \A k \in DOMAIN r2 : k \in DOMAIN e.attrs /\ e.attrs[k] = r2[k]
    /\ \A k \in DOMAIN r1 \ DOMAIN r2 : k \in DOMAIN e.attrs /\ e.attrs[k] = r1[k]
    /\ created => DOMAIN e.attrs = DOMAIN r1 \cup DOMAIN r2

CallEdges ==
    EdgesOf(nodes, edges, call.source_entity_name, call.target_entity_name,
            call.relation_type)

C5_DanglingNoOp ==
    [][(call'.op = "create_relationship" /\ call'.dangling) =>
          (nodes' = nodes /\ edges' = edges /\ ret' = None)]_vars

\* a dangling call has returned while a node and an edge are stored
C5_Witness ==
    /\ call.op = "create_relationship" /\ call.dangling
    /\ nodes # {} /\ edges # {}
    /\ ret = None

\* C6: labels only grow (no call removes a label from a stored node), and the
\* labels of the node of a name are the union of the category sets of all
\* create_node calls made so far for that name.
C6_LabelsAccumulate ==
    /\ [](\A name \in AllNames : \A n \in NodesNamed(name) : n.labels = attributed[name])
    /\ [][\A n \in nodes : \E m \in nodes' : m.id = n.id /\ n.labels \subseteq m.labels]_vars

\* C7: create_node for a name that already has a node leaves the stored
\* description unchanged, whatever description the new entity carries.
C7_DescriptionKept ==
    [][(call'.op = "create_node" /\ call'.existed) =>
          \A n \in NodesNamed(call'.name) :
              \E m \in nodes' : m.id = n.id /\ m.description = n.description]_vars

\* labels were merged from an entity whose description differs from the stored one
C7_Witness ==
    /\ call.op = "create_node" /\ call.existed /\ ret.kind = "str"
    /\ \E n \in NodesNamed(call.name) :
          n.description # call.description /\ Range(call.category) \subseteq n.labels

\* C8: find_longest_paths on a graph with zero edges returns an empty sequence,
\* not an error value and not a missing (None) result.
C8_EmptyGraphEmptyList ==
    (call.op = "find_longest_paths" /\ edges = {}) => ret = List(<<>>)

\* the paths a call returned (none, when it returned None)
Returned == IF ret.kind = "list" THEN ret.val ELSE <<>>

\* the directed paths of the stored graph: one or more distinct edges, each
\* starting where the one before ends
DirectedPaths ==
    {p \in UNION {[1..k -> edges] : k \in 1..Cardinality(edges)} :
        /\ \A i \in DOMAIN p, j \in DOMAIN p : p[i] = p[j] => i = j
        /\ \A i \in 1..(Len(p) - 1) : p[i].target = p[i + 1].source}

NamesAlong(p) ==
    [i \in 1..(Len(p) + 1) |->
        LET id == IF i = 1 THEN p[1].source ELSE p[i - 1].target
        IN  (CHOOSE n \in nodes : n.id = id).name]

C10_ReleasedAtExit == (pc = "exit") => driver # "open"

\* C11: close() is idempotent: after a first successful close(), a second close()
\* takes the warning path instead of closing the underlying driver again (the
\* driver's close() has been called once), and does not fail.
C11_SecondCloseWarns ==
    (call.op = "close" /\ call.before = "closed") =>
        (call.log = "warning" /\ closes = 1)

\* the command line names a topic and a positive decimal iteration count
ArgsValid ==
    /\ Len(argv) >= 3
    /\ AllDigits(argv[3])
    /\ \E i \in DOMAIN argv[3] : argv[3][i] # "0"

\* C12: the process exit code is 0 on normal completion, 1 exactly when the
\* arguments are invalid (missing, non-integer or non-positive iteration count),
\* and 2 on any unhandled core failure, whether it is raised by the run itself or
\* by a store that is unreachable at startup.  Stated on the final state of the
\* processes that end in one of the ways the claim names.
C12_ExitCodes ==
    (pc = "exit" /\ failed \in {"none", "args", "run", "driver", "verify"}) =>
        /\ failed = "none" => exitCode = 0
        /\ exitCode = 1 <=> ~ArgsValid
        /\ failed \in {"run", "driver", "verify"} => exitCode = 2

\* C13: an invalid iteration count (0, a negative number, or a non-integer) is
\* rejected before any work starts: no store connection is opened, no
\* connectivity check and no store read or write is performed, and no iteration
\* executes.
C13_InvalidCountNoWork ==
    (Len(argv) >= 3 /\ ~ArgsValid) =>
        /\ pc \in {"start", "exit"}
        /\ driver = "none" /\ closes = 0
        /\ call = NoCall
        /\ nodes = {} /\ edges = {}

\* a process given the count -3 has ended with status 1
C13_Witness ==
    /\ pc = "exit" /\ exitCode = 1
    /\ Len(argv) >= 3 /\ argv[3] = <<"-", "3">>
    /\ driver = "none"

\* C14: a store failure raised during an individual create_node or
\* create_relationship call mid-run is logged and the operation is skipped: the
\* failure does not leave the call (create_node yields no identifier,
\* create_relationship returns), the stored graph is exactly as it was before the
\* call, and later calls are still accepted (the same driver stays in use, the
\* process has not exited, and the same upsert made again without a failure takes
\* effect).  The steps of the run that stay in the run are the client calls.
C14_FailureSkipped ==
    /\ [][(pc = "run" /\ pc' = "run"
            /\ call'.op \in {"create_node", "create_relationship"} /\ call'.fault) =>
            /\ ret' = None
            /\ nodes' = nodes /\ edges' = edges
            /\ driver' = driver /\ exitCode' = NoExit]_vars
    /\ []((prev.op = "create_node" /\ prev.fault
            /\ call.op = "create_node" /\ ~call.fault) =>
              (ret.kind = "str" /\ NodesNamed(call.name) # {}))
    /\ []((prev.op = "create_relationship" /\ prev.fault
            /\ call.op = "create_relationship" /\ ~call.fault /\ ~call.dangling) =>
              (ret = None /\ CallEdges # {}))

\* an upsert that met a store failure while nodes and edges were stored was made
\* again and has returned the node's identifier
C14_Witness ==
    /\ prev.op = "create_node" /\ prev.fault /\ prev.ret = None
    /\ call.op = "create_node" /\ ~call.fault /\ ret.kind = "str"
    /\ nodes # {} /\ edges # {}

\* C15: create_node for a name not yet stored creates the node and returns its
\* new identifier for every allowed category set, including an entity with zero
\* categories; likewise create_node for an already stored name with zero
\* categories returns the existing identifier and leaves the labels unchanged.
C15_EveryCategorySet ==
    [][(call'.op = "create_node") =>
          IF ~call'.existed
          THEN \E n \in nodes' \ nodes : n.name = call'.name /\ ret' = Str(n.id)
          ELSE call'.category = <<>> =>
                  \A n \in NodesNamed(call'.name) : ret' = Str(n.id) /\ n \in nodes']_vars

\* C16: every path returned by find_longest_paths is a simple path: no node name
\* occurs twice in a returned sequence, also when the stored graph contains
\* directed cycles (e.g. edges A->B and B->A) or self-loops.
C16_SimplePaths ==
    (call.op = "find_longest_paths") =>
        \A i \in DOMAIN Returned :
            \A a \in DOMAIN Returned[i], b \in DOMAIN Returned[i] :
                Returned[i][a] = Returned[i][b] => a = b

\* C17: if the store is unreachable when the client is constructed (driver
\* creation or the round trip of verify_connection fails), construction fails
\* with the error raised to the caller (main() does not go on: the process ends
\* with the status of an uncaught exception), any driver already opened is
\* closed, and no client usable for upserts results (no call was made on one, the
\* store is untouched).
C17_UnreachableAtConstruction ==
    (failed \in {"driver", "verify"}) =>
        /\ pc = "exit" /\ exitCode = UncaughtExit
        /\ driver # "open"
        /\ failed = "verify" => (driver = "closed" /\ closes = 1)
        /\ failed = "driver" => (driver = "none" /\ closes = 0)
        /\ call = NoCall
        /\ nodes = {} /\ edges = {}

\* verify_connection failed on a created driver, which was then closed
C17_Witness ==
    /\ failed = "verify"
    /\ pc = "exit"
    /\ driver = "closed" /\ closes = 1

\* C18: create_relationship never changes the node part of the store: in every
\* case (both endpoints present, an endpoint absent, store failure) the set of
\* stored nodes, their labels and their descriptions are the same after the call
\* as before it; symmetrically create_node never adds, removes or alters an edge.
\* The steps of the run that stay in the run are the client calls.
C18_Frame ==
    [][(pc = "run" /\ pc' = "run") =>
          /\ call'.op = "create_relationship" => nodes' = nodes
          /\ call'.op = "create_node" => edges' = edges]_vars

\* a relationship was stored between two labelled nodes
C18_Witness ==
    /\ call.op = "create_relationship" /\ ~call.dangling /\ ~call.fault
    /\ ~call.existed /\ CallEdges # {}
    /\ Cardinality(nodes) = 2
    /\ \A n \in nodes : n.labels # {}

\* what the edges of the latest call hold of the attributes it was given: a
\* mapping's keys with their values, any other value under the key stored_data;
\* nothing else when the call created the edge
HoldsGiven(e) ==
    LET given == IF IsDict(call.attributes) THEN call.attributes.items
                 ELSE ("stored_data" :> call.attributes.items["value"])
    IN  /\ call.stored = given
        /\ \A k \in DOMAIN given : k \in DOMAIN e.attrs /\ e.attrs[k] = given[k]
        /\ ~call.existed => DOMAIN e.attrs = DOMAIN given

====
